---------------------------- MODULE Spec2Model ----------------------------
(***************************************************************************)
(* Model of build.py: the schema-driven generator of the pydantic payload  *)
(* classes (create_name, type_hint_for_number_property,                    *)
(* type_hint_for_array_property, type_hint_for_property, build_class_code) *)
(* and of its driver python_code.                                          *)
(*                                                                         *)
(* Text.  A Python str is modelled as a sequence of chunks (TLA+ strings). *)
(* Identifiers (property names, class names) are sequences of one-letter   *)
(* chunks, so that str.title() and str.replace("_", "") are computed       *)
(* letter by letter.  The fixed pieces of generated code are multi-letter  *)
(* chunks, cut so that every substring test the code makes                 *)
(* ("Field(default=" in s, "=" in s, s.split(" =", maxsplit=1)) is decided *)
(* on chunks: the                                                          *)
(* chunk " =" is the only place the text " =" occurs, the chunks of        *)
(* EqChunks are the only ones containing "=", and "Field(default=" occurs  *)
(* exactly where chunk " Field(" is followed by chunk "default=".          *)
(* A list of lines is a sequence of such texts.                            *)
(*                                                                         *)
(* Schema nodes are TLA+ records whose DOMAIN is the set of keys of the    *)
(* Python dict, so `"k" in d` is "k" \in DOMAIN d.  A `properties` mapping *)
(* (an insertion-ordered dict) is a sequence of <<name, node>> pairs with  *)
(* distinct names.  Scalar values that are only ever formatted into the    *)
(* output (default, enum members, description) are held as their str()     *)
(* text; None is the text <<"None">>.                                      *)
(*                                                                         *)
(* An exception is a result whose err field names it (err = "" is a normal *)
(* return).  Every node carries its "type" key (a node without one raises  *)
(* KeyError at its first use), the assert statements are executed (the     *)
(* interpreter does not run with -O), and the letters of names are a, b    *)
(* and their capitals, which is enough for str.title() to merge names.     *)
(***************************************************************************)
EXTENDS Integers, Sequences, FiniteSets, TLC

VARIABLES
    pc,                 \* where the running function is
    call,               \* arguments of the function called directly
    ret,                \* what that function returned or raised
    stack,              \* the calls in progress, innermost last
    calls,              \* every call made so far, in order
    asyncapi_data,      \* python_code: the loaded document
    topic_class,        \* python_code: topic -> class name
    final_output_lines, \* python_code: the lines of payloads.py
    idx,                \* python_code: index of the running loop
    todo,               \* python_code: what the running loop has left
    written,            \* python_code: the artifacts written so far
    error               \* python_code: the exception that ended the run

vars == <<pc, call, ret, stack, calls, asyncapi_data, topic_class, final_output_lines,
          idx, todo, written, error>>

-----------------------------------------------------------------------------
(* Text helpers *)

None == <<"None">>

Lower == {"a", "b"}
Upper == {"A", "B"}
Cased == Lower \cup Upper

ToUpper(c) == CASE c = "a" -> "A" [] c = "b" -> "B" [] OTHER -> c
ToLower(c) == CASE c = "A" -> "a" [] c = "B" -> "b" [] OTHER -> c

\* str.title(): a cased letter that follows an uncased character (or starts
\* the string) is upper-cased, every other cased letter is lower-cased.
RECURSIVE TitleFrom(_, _, _)
TitleFrom(s, i, prevCased) ==
    IF i > Len(s) THEN <<>>
    ELSE LET c == s[i]
             o == IF c \in Cased
                  THEN (IF prevCased THEN ToLower(c) ELSE ToUpper(c))
                  ELSE c
         IN  <<o>> \o TitleFrom(s, i + 1, c \in Cased)

Title(s) == TitleFrom(s, 1, FALSE)

\* str.replace("_", "")
RemoveUnderscores(s) == SelectSeq(s, LAMBDA c : c # "_")

\* the chunks that contain the character "="
EqChunks == {" =", "default=", ", ge=", ", gt=", ", le=", ", lt=",
             ", min_items=", ", max_items="}

\* "=" in s
ContainsEq(s) == \E i \in 1..Len(s) : s[i] \in EqChunks

\* "Field(default=" in s
ContainsFieldDefault(s) ==
    \E i \in 1..(Len(s) - 1) : s[i] = " Field(" /\ s[i + 1] = "default="

\* s.split(" =", maxsplit=1): a list of one or two texts
SplitAtEq(s) ==
    IF \E i \in 1..Len(s) : s[i] = " ="
    THEN LET i == CHOOSE k \in 1..Len(s) :
                      s[k] = " =" /\ \A j \in 1..(k - 1) : s[j] # " ="
         IN  <<SubSeq(s, 1, i - 1), SubSeq(s, i + 1, Len(s))>>
    ELSE <<s>>

\* ", ".join([s] * n)
RECURSIVE JoinCopies(_, _)
JoinCopies(s, n) ==
    IF n <= 0 THEN <<>>
    ELSE IF n = 1 THEN s
    ELSE s \o <<", ">> \o JoinCopies(s, n - 1)

-----------------------------------------------------------------------------
(* create_name *)

create_name(parent, child) == RemoveUnderscores(parent \o Title(child))

-----------------------------------------------------------------------------
(* PropertyTypeHint: the dataclass, with the exception raised (if any) in  *)
(* err; err = "" is a normal return.                                       *)

PropertyTypeHint(pl, tc, th, tcth, cth, v, vi) ==
    [err |-> "",
     prepend_lines |-> pl,
     type_checking |-> tc,
     type_hint |-> th,
     type_checking_type_hint |-> tcth,
     core_type_hint |-> cth,
     validator |-> v,
     validator_iter |-> vi]

Raise(e) ==
    [err |-> e,
     prepend_lines |-> <<>>,
     type_checking |-> FALSE,
     type_hint |-> <<>>,
     type_checking_type_hint |-> None,
     core_type_hint |-> None,
     validator |-> FALSE,
     validator_iter |-> None]

\* dict.get(k): the value, or None
Get(d, k) == IF k \in DOMAIN d THEN d[k] ELSE None

NumberExtras == {"default", "minimum", "maximum",
                 "exclusiveMinimum", "exclusiveMaximum"}

-----------------------------------------------------------------------------
(* type_hint_for_number_property *)

\* the text "Field(...)" part after the python type: lines 104-124
NumberFieldOutput(property_, python_type) ==
    LET default == Get(property_, "default")
        field_value == IF default # None THEN <<"default=">> \o default
                       ELSE <<"...">>
        lo == IF "minimum" \in DOMAIN property_
              THEN <<", ge=", ToString(property_["minimum"])>>
              ELSE IF "exclusiveMinimum" \in DOMAIN property_
              THEN <<", gt=", ToString(property_["exclusiveMinimum"])>>
              ELSE <<>>
        hi == IF "maximum" \in DOMAIN property_
              THEN <<", le=", ToString(property_["maximum"])>>
              ELSE IF "exclusiveMaximum" \in DOMAIN property_
              THEN <<", lt=", ToString(property_["exclusiveMaximum"])>>
              ELSE <<>>
    IN  <<python_type, " =", " Field(">> \o field_value \o lo \o hi \o <<")">>

\* the wrapper class emitted for a nested constrained number: lines 130-138
NumberWrapperLines(subclass_name, output, python_type) ==
    << <<"class ">> \o subclass_name \o <<"(BaseModel):">>,
       <<"\t", "__root__", ": ">> \o output,
       <<>>,
       <<"\t", "def __", python_type, "__(self) -> ", python_type, ":">>,
       <<"\t", "\t", "return self.__root__">>,
       <<>>,
       <<>> >>

type_hint_for_number_property(property_, name, parent_name, nested) ==
    IF property_["type"] \notin {"number", "integer"}
    THEN Raise("ValueError")
    ELSE
    LET python_type == IF property_["type"] = "number" THEN "float" ELSE "int"
    IN  IF \A p \in NumberExtras : p \notin DOMAIN property_
        THEN PropertyTypeHint(<<>>, FALSE, <<python_type>>, None, None,
                              FALSE, None)
        ELSE
        LET output == NumberFieldOutput(property_, python_type)
            subclass_name == create_name(parent_name, name) \o <<"I", "t", "e", "m">>
        IN  IF nested
            THEN PropertyTypeHint(
                     NumberWrapperLines(subclass_name, output, python_type),
                     TRUE, subclass_name, <<python_type>>, <<python_type>>,
                     TRUE, None)
            ELSE PropertyTypeHint(<<>>, FALSE, output, None, None, FALSE, None)

-----------------------------------------------------------------------------
(* type_hint_for_array_property, type_hint_for_property, build_class_code: *)
(* mutually recursive.  build_class_code returns [err, lines].             *)

RECURSIVE type_hint_for_property(_, _, _, _, _)
RECURSIVE build_class_code(_, _)

\* lines 168-181: the List[..] / Tuple[..] text for item text `item`
ArrayPythonType(property_, item) ==
    IF /\ "minItems" \in DOMAIN property_
       /\ "maxItems" \in DOMAIN property_
       /\ property_["minItems"] = property_["maxItems"]
    THEN <<"Tuple[">> \o JoinCopies(item, property_["minItems"]) \o <<"]">>
    ELSE <<"List[">> \o item \o <<"]">>

\* line 181: ', '.join([None] * n) raises TypeError for n >= 1 (the item's
\* type_checking_type_hint is None for a number without extras)
JoinsNone(property_, item) ==
    /\ "minItems" \in DOMAIN property_
    /\ "maxItems" \in DOMAIN property_
    /\ property_["minItems"] = property_["maxItems"]
    /\ property_["minItems"] >= 1
    /\ item = None

\* lines 200-209: the ", min_items=.., max_items=..)" tail
ArrayBoundsTail(property_) ==
    (IF "minItems" \in DOMAIN property_
     THEN <<", min_items=", ToString(property_["minItems"])>> ELSE <<>>)
    \o (IF "maxItems" \in DOMAIN property_
        THEN <<", max_items=", ToString(property_["maxItems"])>> ELSE <<>>)
    \o <<")">>

\* type_hint_for_array_property with line 217 taking the item's validator
\* flag as line 193 does: bounds alone do not ask for coercion
ArrayPropertyItemValidator(property_, name, parent_name, nested) ==
    IF "items" \notin DOMAIN property_ THEN Raise("KeyError")
    ELSE
    LET sub == type_hint_for_property(property_["items"], TRUE, name,
                                      parent_name, TRUE)
    IN  IF sub.err # "" THEN Raise(sub.err)
        ELSE IF JoinsNone(property_, sub.type_checking_type_hint)
        THEN Raise("TypeError")
        ELSE
        LET python_type == ArrayPythonType(property_, sub.type_hint)
            python_type_checking_type ==
                ArrayPythonType(property_, sub.type_checking_type_hint)
        IN  IF "minItems" \notin DOMAIN property_
               /\ "maxItems" \notin DOMAIN property_
            THEN PropertyTypeHint(sub.prepend_lines, sub.type_checking,
                                  python_type, python_type_checking_type,
                                  sub.core_type_hint, sub.validator, <<"list">>)
            ELSE
            LET head == IF sub.type_checking
                        THEN <<"conlist(">> \o sub.type_hint
                        ELSE python_type \o <<" =", " Field(", "...">>
                output == head \o ArrayBoundsTail(property_)
            IN  PropertyTypeHint(sub.prepend_lines, sub.type_checking,
                                 output, python_type_checking_type,
                                 sub.core_type_hint, sub.validator, <<"tuple">>)

type_hint_for_array_property(property_, name, parent_name, nested) ==
    IF "items" \notin DOMAIN property_ THEN Raise("KeyError")
    ELSE
    LET sub == type_hint_for_property(property_["items"], TRUE, name,
                                      parent_name, TRUE)
    IN  IF sub.err # "" THEN Raise(sub.err)
        ELSE IF JoinsNone(property_, sub.type_checking_type_hint)
        THEN Raise("TypeError")
        ELSE
        LET python_type == ArrayPythonType(property_, sub.type_hint)
            python_type_checking_type ==
                ArrayPythonType(property_, sub.type_checking_type_hint)
        IN  IF "minItems" \notin DOMAIN property_
               /\ "maxItems" \notin DOMAIN property_
            THEN PropertyTypeHint(sub.prepend_lines, sub.type_checking,
                                  python_type, python_type_checking_type,
                                  sub.core_type_hint, sub.validator, <<"list">>)
            ELSE
            LET head == IF sub.type_checking
                        THEN <<"conlist(">> \o sub.type_hint
                        ELSE python_type \o <<" =", " Field(", "...">>
                output == head \o ArrayBoundsTail(property_)
            IN  PropertyTypeHint(sub.prepend_lines, sub.type_checking,
                                 output, python_type_checking_type,
                                 sub.core_type_hint, TRUE, <<"tuple">>)

\* 'Literal["' + '", "'.join(enum) + '"]'
RECURSIVE JoinEnum(_, _)
JoinEnum(enum, i) ==
    IF i > Len(enum) THEN <<>>
    ELSE enum[i] \o (IF i < Len(enum) THEN <<"\", \"">> ELSE <<>>)
         \o JoinEnum(enum, i + 1)

\* " = Field(default=<default>)" appended when the node has a default
DefaultSuffix(property_) ==
    IF "default" \in DOMAIN property_
    THEN <<" =", " Field(", "default=">> \o property_["default"] \o <<")">>
    ELSE <<>>

\* lines 271-278 without the "Field(default=" test of line 271
WrapOptionalAlways(h, required) ==
    IF ~required
    THEN IF ContainsEq(h.type_hint)
         THEN LET chunks == SplitAtEq(h.type_hint)
              IN  IF Len(chunks) < 2 THEN Raise("IndexError")
                  ELSE [h EXCEPT !.type_hint =
                           <<"Optional[">> \o chunks[1] \o <<"]", " =", " ">>
                           \o chunks[2]]
         ELSE [h EXCEPT !.type_hint = <<"Optional[">> \o h.type_hint \o <<"]">>]
    ELSE h

\* lines 271-278: the Optional[] wrapping of a non-required property
WrapOptional(h, required) ==
    IF ~required /\ ~ContainsFieldDefault(h.type_hint)
    THEN IF ContainsEq(h.type_hint)
         THEN LET chunks == SplitAtEq(h.type_hint)
              IN  IF Len(chunks) < 2 THEN Raise("IndexError")
                  ELSE [h EXCEPT !.type_hint =
                           <<"Optional[">> \o chunks[1] \o <<"]", " =", " ">>
                           \o chunks[2]]
         ELSE [h EXCEPT !.type_hint = <<"Optional[">> \o h.type_hint \o <<"]">>]
    ELSE h

\* line 229: the initial PropertyTypeHint, with type_hint set
PlainHint(type_hint) ==
    PropertyTypeHint(<<>>, FALSE, type_hint, <<>>, None, FALSE, None)

type_hint_for_property(property_, required, name, parent_name, nested) ==
    LET t == property_["type"]
        h == CASE t = "string" ->
                    PlainHint((IF "enum" \in DOMAIN property_
                               THEN <<"Literal[\"">> \o JoinEnum(property_["enum"], 1)
                                    \o <<"\"]">>
                               ELSE <<"str">>) \o DefaultSuffix(property_))
               [] t \in {"number", "integer"} ->
                    type_hint_for_number_property(property_, name, parent_name,
                                                  nested)
               [] t = "boolean" ->
                    PlainHint(<<"bool">> \o DefaultSuffix(property_))
               [] t = "object" ->
                    LET subclass_name == create_name(parent_name, name)
                        sub == build_class_code(subclass_name, property_)
                    IN  IF sub.err # "" THEN Raise(sub.err)
                        ELSE [PlainHint(subclass_name)
                                 EXCEPT !.prepend_lines = sub.lines]
               [] t = "array" ->
                    type_hint_for_array_property(property_, name, parent_name,
                                                 nested)
               [] OTHER -> Raise("ValueError")
    IN  IF h.err # "" THEN h ELSE WrapOptional(h, required)

\* lines 310-322: the field line(s) of one property
FieldLines(property_name, h) ==
    IF h.type_checking
    THEN << <<"\t", "if TYPE_CHECKING:">>,
            <<"\t", "\t">> \o property_name \o <<": ">>
                \o h.type_checking_type_hint,
            <<"\t", "else:">>,
            <<"\t", "\t">> \o property_name \o <<": ">> \o h.type_hint >>
    ELSE << <<"\t">> \o property_name \o <<": ">> \o h.type_hint >>

\* lines 291-292 and 325-326: a docstring
DocLines(node, extra) ==
    IF "description" \in DOMAIN node
    THEN << <<"\t", "\"\"\"">>, <<"\t">> \o node["description"],
            <<"\t", "\"\"\"">> >> \o extra
    ELSE <<>>

\* lines 328-336: the validator of one property
ValidatorLines(property_name, h) ==
    IF h.validator
    THEN << <<"\t", "@validator('">> \o property_name \o <<"')">>,
            <<"\t", "def _validate_">> \o property_name \o <<"(cls, v) -> ">>
                \o h.validator_iter \o <<":">>,
            <<"\t", "\t", "return _convert_type(v, ">> \o h.validator_iter
                \o <<", ">> \o h.core_type_hint \o <<")">>,
            <<>> >>
    ELSE <<>>

\* lines 284-285 with the second assertion dropped: open objects pass
AssertionsTypeOnly(class_data) ==
    IF class_data["type"] # "object" THEN "AssertionError" ELSE ""

\* lines 284-285: the exception the two assertions raise, "" when they pass
\* (`is False`: only the boolean False passes)
Assertions(class_data) ==
    IF class_data["type"] # "object" THEN "AssertionError"
    ELSE IF "additionalProperties" \notin DOMAIN class_data THEN "KeyError"
    ELSE IF class_data["additionalProperties"] # "False" THEN "AssertionError"
    ELSE ""

\* the hoisted lines put after the class instead of before it
HoistAfter(prepend_lines, output_lines) == output_lines \o prepend_lines

\* line 307: output_lines = property_type_hint.prepend_lines + output_lines
Hoist(prepend_lines, output_lines) == prepend_lines \o output_lines

\* lines 295-336: the loop over class_data["properties"], from property i on
RECURSIVE BuildProperties(_, _, _, _)
BuildProperties(class_name, class_data, i, output_lines) ==
    IF i > Len(class_data["properties"])
    THEN [err |-> "", lines |-> output_lines]
    ELSE
    LET property_name == class_data["properties"][i][1]
        property_ == class_data["properties"][i][2]
    IN  IF "required" \notin DOMAIN class_data
        THEN [err |-> "KeyError", lines |-> <<>>]
        ELSE
        LET h == type_hint_for_property(
                     property_, property_name \in class_data["required"],
                     property_name, class_name, FALSE)
        IN  IF h.err # "" THEN [err |-> h.err, lines |-> <<>>]
            ELSE BuildProperties(class_name, class_data, i + 1,
                     Hoist(h.prepend_lines, output_lines)
                     \o FieldLines(property_name, h)
                     \o DocLines(property_, <<>>)
                     \o ValidatorLines(property_name, h))

build_class_code(class_name, class_data) ==
    IF Assertions(class_data) # ""
    THEN [err |-> Assertions(class_data), lines |-> <<>>]
    ELSE
    LET output_lines == << <<"class ">> \o class_name \o <<"(BaseModel):">> >>
                        \o DocLines(class_data, << <<>> >>)
        body == IF "properties" \in DOMAIN class_data
                THEN BuildProperties(class_name, class_data, 1, output_lines)
                ELSE [err |-> "", lines |-> output_lines \o << <<"\t", "pass">> >>]
    IN  IF body.err # "" THEN body
        ELSE [err |-> "", lines |-> body.lines \o << <<>> >>]

-----------------------------------------------------------------------------
(* Inputs.  Numeric constraint values range over 0..MaxBound, minItems and *)
(* maxItems over 0..MaxArity, an object has at most MaxProps properties.   *)

MaxBound == 1
MaxArity == 2
MaxProps == 2

\* an optional key k with a value of S: the key is absent, or present
Opt(k, S) == {<<>>} \cup {k :> v : v \in S}

NumberNodes ==
    {[type |-> t] @@ d @@ mn @@ mx @@ xmn @@ xmx :
        t \in {"integer", "number"},
        d \in Opt("default", {<<"0">>, None}),
        mn \in Opt("minimum", 0..MaxBound),
        mx \in Opt("maximum", 0..MaxBound),
        xmn \in Opt("exclusiveMinimum", 0..MaxBound),
        xmx \in Opt("exclusiveMaximum", 0..MaxBound)}

StringNodes ==
    {[type |-> "string"] @@ e @@ d :
        e \in Opt("enum", {<< <<"x">> >>, << <<"x">>, <<"y">> >>}),
        d \in Opt("default", {<<"x">>})}

BooleanNodes ==
    {[type |-> "boolean"] @@ d : d \in Opt("default", {<<"True">>})}

\* a node of a kind the generator does not know
UnknownNode == [type |-> "null"]

ScalarNodes == NumberNodes \cup StringNodes \cup BooleanNodes \cup {UnknownNode}

PlainInt == [type |-> "integer"]
BoundedInt == [type |-> "integer", minimum |-> 0, maximum |-> MaxBound]

ArraysOver(S) ==
    {[type |-> "array", items |-> i] @@ mn @@ mx :
        i \in S,
        mn \in Opt("minItems", 0..MaxArity),
        mx \in Opt("maxItems", 0..MaxArity)}

\* the ordered property mappings with at most MaxProps distinct names of N
\* and nodes of C
RECURSIVE PropSeqsOfLen(_, _, _)
PropSeqsOfLen(N, C, k) ==
    IF k = 0 THEN {<<>>}
    ELSE {Append(ps, <<n, c>>) :
             ps \in PropSeqsOfLen(N, C, k - 1), n \in N, c \in C}

PropSeqs(N, C, k) == UNION {PropSeqsOfLen(N, C, j) : j \in 0..k}

DistinctNames(ps) ==
    \A i, j \in 1..Len(ps) : i # j => ps[i][1] # ps[j][1]

NameSet(ps) == {ps[i][1] : i \in 1..Len(ps)}

\* object nodes over property names N and nodes C; `required` is absent,
\* empty or names every property
ObjectsOver(N, C) ==
    {[type |-> "object"] @@ ap @@ pr
        @@ (CASE rq = "absent" -> <<>>
              [] rq = "none" -> [required |-> {}]
              [] rq = "all" -> [required |-> IF "properties" \in DOMAIN pr
                                            THEN NameSet(pr["properties"])
                                            ELSE {}]) :
        ap \in Opt("additionalProperties", {"False", "True"}),
        pr \in Opt("properties",
                   {ps \in PropSeqs(N, C, MaxProps) : DistinctNames(ps)}),
        rq \in {"absent", "none", "all"}}

\* a closed object with the given properties, all of them required
Closed(ps) ==
    [type |-> "object", additionalProperties |-> "False",
     properties |-> ps, required |-> NameSet(ps)]

\* property names: "a" and "A" title-case to the same text, and so do
\* "a_b" under X and "b" under XA
PropNames == {<<"a">>, <<"A">>, <<"b">>, <<"a", "_", "b">>}

ClassNames == {<<"X">>, <<"X", "A">>}

EmptyClosed == [type |-> "object", additionalProperties |-> "False"]
EmptyProps == Closed(<<>>)
OpenObject == [type |-> "object", additionalProperties |-> "True"]
NoFlagObject == [type |-> "object"]
Wrgb == [type |-> "array", items |-> BoundedInt,
         minItems |-> MaxArity, maxItems |-> MaxArity]
Described == [type |-> "object", additionalProperties |-> "False",
              description |-> <<"doc">>,
              properties |-> << << <<"a">>, PlainInt @@ [description |-> <<"doc">>] >> >>,
              required |-> {}]

SampleObjects ==
    {EmptyClosed, EmptyProps, OpenObject, NoFlagObject, Described,
     Closed(<< << <<"b">>, Wrgb >> >>)}

\* the nodes type_hint_for_property is called on
ItemNodes ==
    {n \in NumberNodes : DOMAIN n \subseteq {"type", "default", "minimum", "maximum"}}
    \cup StringNodes \cup BooleanNodes \cup {UnknownNode} \cup SampleObjects

SynthNodes ==
    ScalarNodes \cup SampleObjects \cup ArraysOver(ItemNodes)
    \cup ArraysOver(ArraysOver({PlainInt, BoundedInt, [type |-> "string"]}))
    \cup {[type |-> "array"]}

\* the nodes build_class_code is called on: objects of up to three levels
EmitLeaves ==
    {BoundedInt, UnknownNode, Wrgb,
     [type |-> "array", items |-> [type |-> "array", items |-> BoundedInt]]}

EmitChildren ==
    {EmptyClosed, OpenObject,
     Closed(<< << <<"b">>, EmptyClosed >> >>),
     [type |-> "array", items |-> Closed(<< << <<"b">>, Wrgb >> >>)],
     [type |-> "array", items |-> NoFlagObject, minItems |-> 1]}

EmitNodes ==
    ObjectsOver(PropNames, EmitLeaves) \cup ObjectsOver(PropNames, EmitChildren)
    \cup {Described, PlainInt, Wrgb}

-----------------------------------------------------------------------------
(* The specification of type_hint_for_property called on its own *)

Pending == [err |-> "pending"]

NoRun ==
    /\ stack = <<>>
    /\ calls = <<>>
    /\ asyncapi_data = <<>>
    /\ topic_class = <<>>
    /\ final_output_lines = <<>>
    /\ idx = 0
    /\ todo = {}
    /\ written = {}
    /\ error = ""

RunVars ==
    <<stack, calls, asyncapi_data, topic_class, final_output_lines, idx, todo, written, error>>

InitSynth ==
    /\ pc = "call"
    /\ call \in [property_ : SynthNodes, required : BOOLEAN,
                  name : {<<"a">>, <<"a", "_", "b">>}, parent_name : {<<"X">>},
                  nested : BOOLEAN]
    /\ ret = Pending
    /\ NoRun

Synthesize ==
    /\ pc = "call"
    /\ ret' = type_hint_for_property(call.property_, call.required, call.name,
                                     call.parent_name, call.nested)
    /\ pc' = "return"
    /\ UNCHANGED <<call, RunVars>>

NextSynth == Synthesize

SpecSynth == InitSynth /\ [][NextSynth]_vars

(* The specification of build_class_code called on its own *)

InitEmit ==
    /\ pc = "call"
    /\ call \in [class_name : ClassNames, class_data : EmitNodes]
    /\ ret = Pending
    /\ NoRun

Emit ==
    /\ pc = "call"
    /\ ret' = build_class_code(call.class_name, call.class_data)
    /\ pc' = "return"
    /\ UNCHANGED <<call, RunVars>>

NextEmit == Emit

SpecEmit == InitEmit /\ [][NextEmit]_vars

-----------------------------------------------------------------------------
(* python_code: one run of the generator.  The document is                 *)
(* [channels, messages]: `channels` the ordered mapping topic -> channel,  *)
(* a channel holding under "subscribe"/"publish" the last segment of its   *)
(* message $ref; `messages` the ordered mapping name -> payload schema.    *)

MaxChannels == 2

MessageNames == << <<"X">>, <<"X", "EmptyMessage">> >>

MessageRefs == {MessageNames[k] : k \in 1..Len(MessageNames)}

ChannelNodes ==
    {<<>>}
    \cup {[subscribe |-> k] : k \in MessageRefs}
    \cup {[publish |-> k] : k \in MessageRefs}
    \cup {[subscribe |-> <<"X">>, publish |-> <<"X", "EmptyMessage">>]}

Topic(k) == <<"topic", ToString(k)>>

ChannelMaps ==
    UNION {{[k \in 1..n |-> <<Topic(k), f[k]>>] : f \in [1..n -> ChannelNodes]} :
              n \in 0..MaxChannels}

Payloads ==
    {Closed(<< << <<"a">>, Wrgb >> >>),
     EmptyClosed,
     Closed(<< << <<"a">>, Closed(<< << <<"b">>, OpenObject >> >>) >> >>),
     Closed(<< << <<"a">>, [type |-> "array", items |-> UnknownNode] >> >>)}

\* the messages of a choice f: name k is absent (<<>>) or has payload f[k]
RECURSIVE MessageMapFrom(_, _)
MessageMapFrom(f, k) ==
    IF k > Len(MessageNames) THEN <<>>
    ELSE (IF f[k] = <<>> THEN <<>> ELSE << <<MessageNames[k], f[k]>> >>)
         \o MessageMapFrom(f, k + 1)

MessageMaps ==
    {MessageMapFrom(f, 1) :
        f \in [1..Len(MessageNames) -> {<<>>} \cup Payloads]}

\* the lines of _payloads_header.j2 (line 376), opaque
Header == << <<"header">> >>

\* the *.j2 files of MQTT_DIR (line 416)
Templates == {"_payloads_header", "client", "constants"}

StartsWithUnderscore(t) == t = "_payloads_header"

\* lines 394-400: the callback stub of a class
CallableLines(klass) ==
    LET args == IF \E k \in 1..Len(klass) : klass[k] = "EmptyMessage"
                THEN <<>> ELSE <<", payload: ">> \o klass
    IN  << <<"class _">> \o klass \o <<"Callable(Protocol):">>,
           <<"\t", "\"\"\"">>,
           <<"\t", "Class used only for type-hinting MQTT callbacks.">>,
           <<"\t", "\"\"\"">>,
           <<"\t", "def __call__(self">> \o args \o <<") -> Any:">>,
           <<"\t", "\t", "...">>,
           <<>> >>

\* line 405: i.replace("\t", "    ") on every line
ReplaceTabs(lines) ==
    [k \in 1..Len(lines) |->
        [j \in 1..Len(lines[k]) |->
            IF lines[k][j] = "\t" THEN "    " ELSE lines[k][j]]]

Init ==
    /\ pc = "channels"
    /\ call = <<>>
    /\ ret = Pending
    /\ stack = <<>>
    /\ calls = <<>>
    /\ asyncapi_data \in [channels : ChannelMaps, messages : MessageMaps]
    /\ topic_class = <<>>
    /\ final_output_lines = <<>>
    /\ idx = 1
    /\ todo = {}
    /\ written = <<>>
    /\ error = ""

\* lines 359-372: one turn of the loop over the channels
ReadChannel ==
    /\ pc = "channels"
    /\ idx <= Len(asyncapi_data.channels)
    /\ LET topic == asyncapi_data.channels[idx][1]
           channel == asyncapi_data.channels[idx][2]
       IN  IF "subscribe" \in DOMAIN channel
           THEN /\ topic_class' = Append(topic_class, <<topic, channel["subscribe"]>>)
                /\ idx' = idx + 1
                /\ UNCHANGED <<pc, error>>
           ELSE IF "publish" \in DOMAIN channel
           THEN /\ topic_class' = Append(topic_class, <<topic, channel["publish"]>>)
                /\ idx' = idx + 1
                /\ UNCHANGED <<pc, error>>
           ELSE /\ error' = "ValueError"
                /\ pc' = "failed"
                /\ UNCHANGED <<topic_class, idx>>
    /\ UNCHANGED <<call, ret, stack, calls, asyncapi_data, final_output_lines, todo, written>>

\* lines 375-379: the loop is over, the header is read
ReadHeader ==
    /\ pc = "channels"
    /\ idx > Len(asyncapi_data.channels)
    /\ final_output_lines' = Header
    /\ pc' = "messages"
    /\ idx' = 1
    /\ UNCHANGED <<call, ret, stack, calls, asyncapi_data, topic_class, todo, written, error>>

\* the loop of lines 380-384 going on after a message that failed
BuildMessageSkipErrors ==
    /\ pc = "messages"
    /\ idx <= Len(asyncapi_data.messages)
    /\ LET r == build_class_code(asyncapi_data.messages[idx][1],
                                 asyncapi_data.messages[idx][2])
       IN  final_output_lines' = final_output_lines \o r.lines
    /\ idx' = idx + 1
    /\ UNCHANGED <<pc, error, call, ret, stack, calls, asyncapi_data, topic_class, todo, written>>

\* lines 380-384: one turn of the loop over the messages
BuildMessage ==
    /\ pc = "messages"
    /\ idx <= Len(asyncapi_data.messages)
    /\ LET r == build_class_code(asyncapi_data.messages[idx][1],
                                 asyncapi_data.messages[idx][2])
       IN  IF r.err # ""
           THEN /\ error' = r.err
                /\ pc' = "failed"
                /\ UNCHANGED <<final_output_lines, idx>>
           ELSE /\ final_output_lines' = final_output_lines \o r.lines
                /\ idx' = idx + 1
                /\ UNCHANGED <<pc, error>>
    /\ UNCHANGED <<call, ret, stack, calls, asyncapi_data, topic_class, todo, written>>

\* line 387: set(topic_class.values())
StartCallables ==
    /\ pc = "messages"
    /\ idx > Len(asyncapi_data.messages)
    /\ todo' = {topic_class[k][2] : k \in 1..Len(topic_class)}
    /\ pc' = "callables"
    /\ UNCHANGED <<call, ret, stack, calls, asyncapi_data, topic_class, final_output_lines,
                   idx, written, error>>

\* lines 387-402: one turn of the loop over the set, in no fixed order
GenerateCallable ==
    /\ pc = "callables"
    /\ \E klass \in todo :
          /\ final_output_lines' = final_output_lines \o CallableLines(klass)
          /\ todo' = todo \ {klass}
    /\ UNCHANGED <<pc, call, ret, stack, calls, asyncapi_data, topic_class, idx, written, error>>

\* line 405
ConvertTabs ==
    /\ pc = "callables"
    /\ todo = {}
    /\ final_output_lines' = ReplaceTabs(final_output_lines)
    /\ pc' = "write"
    /\ UNCHANGED <<call, ret, stack, calls, asyncapi_data, topic_class, idx, todo, written, error>>

\* lines 408-409: payloads.py is written; line 416: the templates are listed
WritePayloads ==
    /\ pc = "write"
    /\ written' = Append(written, <<"payloads.py", final_output_lines>>)
    /\ todo' = Templates
    /\ pc' = "render"
    /\ UNCHANGED <<call, ret, stack, calls, asyncapi_data, topic_class, final_output_lines,
                   idx, error>>

\* lines 416-427: one turn of the loop over the templates, in glob order
RenderTemplate ==
    /\ pc = "render"
    /\ \E t \in todo :
          /\ todo' = todo \ {t}
          /\ written' = IF StartsWithUnderscore(t) THEN written
                        ELSE Append(written, <<t, topic_class>>)
    /\ UNCHANGED <<pc, call, ret, stack, calls, asyncapi_data, topic_class,
                   final_output_lines, idx, error>>

\* python_code returns
Return ==
    /\ pc = "render"
    /\ todo = {}
    /\ pc' = "done"
    /\ UNCHANGED <<call, ret, stack, calls, asyncapi_data, topic_class, final_output_lines,
                   idx, todo, written, error>>

Next ==
    \/ ReadChannel
    \/ ReadHeader
    \/ BuildMessage
    \/ StartCallables
    \/ GenerateCallable
    \/ ConvertTabs
    \/ WritePayloads
    \/ RenderTemplate
    \/ Return

Spec == Init /\ [][Next]_vars

-----------------------------------------------------------------------------
(* Reading the generated lines back *)

\* the one-letter chunks identifiers are made of
NameLetters == {"a", "b", "A", "B", "X", "I", "t", "e", "m", "_"}

IsClassLine(line) == Len(line) >= 2 /\ line[1] = "class "

\* the name in "class <name>(BaseModel):"
DefName(line) == SubSeq(line, 2, Len(line) - 1)

ClassDefs(lines) == {k \in 1..Len(lines) : IsClassLine(lines[k])}

\* the class whose body line k belongs to (0 before the first class line)
OwnerOf(lines, k) ==
    LET before == {d \in ClassDefs(lines) : d <= k}
    IN  IF before = {} THEN 0
        ELSE CHOOSE d \in before : \A e \in before : e <= d

\* the text after "<field>: " of an annotated line, <<>> for any other line
Annotation(line) ==
    IF \E i \in 1..Len(line) : line[i] = ": "
    THEN LET i == CHOOSE k \in 1..Len(line) :
                      line[k] = ": " /\ \A j \in 1..(k - 1) : line[j] # ": "
         IN  SubSeq(line, i + 1, Len(line))
    ELSE <<>>

\* the identifiers of a text: its maximal runs of letters
Identifiers(t) ==
    {SubSeq(t, i, j) : i \in 1..Len(t), j \in 1..Len(t)} \cap
    {SubSeq(t, i, j) : <<i, j>> \in
        {ij \in (1..Len(t)) \X (1..Len(t)) :
            /\ ij[1] <= ij[2]
            /\ \A k \in ij[1]..ij[2] : t[k] \in NameLetters
            /\ (ij[1] > 1 => t[ij[1] - 1] \notin NameLetters)
            /\ (ij[2] < Len(t) => t[ij[2] + 1] \notin NameLetters)}}

\* the class names, in order of definition
RECURSIVE DefNamesFrom(_, _)
DefNamesFrom(lines, k) ==
    IF k > Len(lines) THEN <<>>
    ELSE (IF IsClassLine(lines[k]) THEN <<DefName(lines[k])>> ELSE <<>>)
         \o DefNamesFrom(lines, k + 1)

DefNames(lines) == DefNamesFrom(lines, 1)

\* the lines of the body of a class that are fields
FieldLinesOf(lines, d) ==
    {k \in 1..Len(lines) :
        /\ OwnerOf(lines, k) = d /\ k # d
        /\ Annotation(lines[k]) # <<>>}

-----------------------------------------------------------------------------
(* Schema trees *)

Closed_(node) ==
    /\ node["type"] = "object"
    /\ "additionalProperties" \in DOMAIN node
    /\ node["additionalProperties"] = "False"

\* the object nodes of a tree: the node itself, and those reached through
\* properties and array items
RECURSIVE ObjectNodes(_)
ObjectNodes(node) ==
    IF node["type"] = "object"
    THEN {node} \cup
         (IF "properties" \in DOMAIN node
          THEN UNION {ObjectNodes(node["properties"][i][2]) :
                         i \in 1..Len(node["properties"])}
          ELSE {})
    ELSE IF node["type"] = "array" /\ "items" \in DOMAIN node
    THEN ObjectNodes(node["items"])
    ELSE {}

-----------------------------------------------------------------------------
(* C3: build_class_code fails, returning no lines, whenever the node it is  *)
(* given is not a closed object (not an object, or additionalProperties    *)
(* absent or not False), or an object reached from it through properties   *)
(* and array items is not closed.                                          *)

C3_ClosedSchemaRequired ==
    (pc = "return" /\
       (~Closed_(call.class_data)
        \/ \E n \in ObjectNodes(call.class_data) : ~Closed_(n)))
    => (ret.err # "" /\ ret.lines = <<>>)

\* a closed object with a nested object that is not closed was rejected
C3_Witness ==
    /\ pc = "return"
    /\ Closed_(call.class_data)
    /\ \E n \in ObjectNodes(call.class_data) : ~Closed_(n)
    /\ ret.err = "AssertionError"

-----------------------------------------------------------------------------
(* C9: in the lines build_class_code returns, every class name used in a   *)
(* field annotation of a class is defined by a class line strictly before  *)
(* the class that uses it, and the last class defined is the one asked for.*)

DefinedBeforeUse(lines) ==
    \A d \in ClassDefs(lines) :
        \A k \in FieldLinesOf(lines, d) :
            \A id \in Identifiers(Annotation(lines[k])) :
                \E e \in ClassDefs(lines) :
                    e < d /\ DefName(lines[e]) = id

AskedForIsLast(lines, class_name) ==
    /\ ClassDefs(lines) # {}
    /\ LET last == CHOOSE d \in ClassDefs(lines) :
                       \A e \in ClassDefs(lines) : e <= d
       IN  DefName(lines[last]) = class_name

C9_DefinitionBeforeUse ==
    (pc = "return" /\ ret.err = "")
    => /\ DefinedBeforeUse(ret.lines)
       /\ AskedForIsLast(ret.lines, call.class_name)

\* three levels: the class asked for uses a class that uses a wrapper class
C9_Witness ==
    /\ pc = "return" /\ ret.err = ""
    /\ \E d1, d2, d3 \in ClassDefs(ret.lines) :
          /\ d1 < d2 /\ d2 < d3
          /\ \E k \in FieldLinesOf(ret.lines, d3) :
                DefName(ret.lines[d2]) \in Identifiers(Annotation(ret.lines[k]))
          /\ \E k \in FieldLinesOf(ret.lines, d2) :
                DefName(ret.lines[d1]) \in Identifiers(Annotation(ret.lines[k]))

-----------------------------------------------------------------------------
(* C10: for a closed object with no declared properties (no `properties`   *)
(* key, or an empty one) build_class_code returns a class whose body is    *)
(* exactly one `pass` marker and no field.                                 *)

IsPass(line) == line = <<"\t", "pass">>

C10_EmptyObjectMarker ==
    (/\ pc = "return"
     /\ Closed_(call.class_data)
     /\ ("properties" \in DOMAIN call.class_data
            => call.class_data["properties"] = <<>>))
    => /\ ret.err = ""
       /\ Cardinality({k \in 1..Len(ret.lines) : IsPass(ret.lines[k])}) = 1
       /\ \A d \in ClassDefs(ret.lines) : FieldLinesOf(ret.lines, d) = {}

-----------------------------------------------------------------------------
(* C8: the classes hoisted ahead of the class asked for are the auxiliary  *)
(* classes of its properties in schema order (an earlier property's first, *)
(* each property's in their own order), a name already hoisted not being   *)
(* hoisted again.                                                          *)

\* s without the elements that occurred earlier in it
RECURSIVE Dedup(_, _)
Dedup(s, k) ==
    IF k > Len(s) THEN <<>>
    ELSE (IF \E j \in 1..(k - 1) : s[j] = s[k] THEN <<>> ELSE <<s[k]>>)
         \o Dedup(s, k + 1)

\* the names of the auxiliary classes of properties i.. of an object
RECURSIVE AuxNamesFrom(_, _, _)
AuxNamesFrom(class_name, class_data, i) ==
    IF i > Len(class_data["properties"]) THEN <<>>
    ELSE LET p == class_data["properties"][i]
             h == type_hint_for_property(
                      p[2], p[1] \in class_data["required"], p[1],
                      class_name, FALSE)
         IN  DefNames(h.prepend_lines)
             \o AuxNamesFrom(class_name, class_data, i + 1)

C8_HoistingOrder ==
    (/\ pc = "return" /\ ret.err = ""
     /\ "properties" \in DOMAIN call.class_data
     /\ call.class_data["properties"] # <<>>)
    => DefNames(ret.lines) =
           Dedup(AuxNamesFrom(call.class_name, call.class_data, 1), 1)
           \o <<call.class_name>>

-----------------------------------------------------------------------------
(* C2: the class names defined in the lines of one build_class_code call   *)
(* are pairwise distinct: two schema paths never give one name (the call   *)
(* raises instead).                                                        *)

C2_NamesInjective ==
    (pc = "return" /\ ret.err = "")
    => \A d, e \in ClassDefs(ret.lines) :
           d # e => DefName(ret.lines[d]) # DefName(ret.lines[e])

-----------------------------------------------------------------------------
(* Reading a synthesized expression *)

\* what type_hint_for_property returns for the same node when it is required:
\* the expression before the optional wrapping of lines 271-278
AsRequired ==
    type_hint_for_property(call.property_, TRUE, call.name, call.parent_name,
                           call.nested)

\* the descriptor of the item of the array node called on (line 160)
ItemHint ==
    type_hint_for_property(call.property_["items"], TRUE, call.name,
                           call.parent_name, TRUE)

\* Field(...): pydantic's marker of a field that must be given
HasRequiredMarker(t) ==
    \E i \in 1..(Len(t) - 1) : t[i] = " Field(" /\ t[i + 1] = "..."

IsNullable(t) == Len(t) >= 1 /\ t[1] = "Optional["

StartsWith(t, p) == Len(t) >= Len(p) /\ SubSeq(t, 1, Len(p)) = p

\* the expression t is the type p, alone or followed by " = Field(..)"
IsTypeOf(t, p) ==
    /\ StartsWith(t, p)
    /\ (Len(t) > Len(p) => t[Len(p) + 1] = " =")

RecognizedKinds == {"string", "integer", "number", "boolean", "object", "array"}

FixedArity(node) ==
    /\ "minItems" \in DOMAIN node
    /\ "maxItems" \in DOMAIN node
    /\ node["minItems"] = node["maxItems"]

-----------------------------------------------------------------------------
(* C4: a property that is not required and whose node has no default gets  *)
(* an expression that is nullable and has a null default, i.e. carries no  *)
(* required marker, whatever the kind of the node (the node being one the  *)
(* generator accepts when the property is required).                       *)

C4_OptionalOmissible ==
    (/\ pc = "return"
     /\ ~call.required /\ ~call.nested
     /\ "default" \notin DOMAIN call.property_
     /\ AsRequired.err = "")
    => /\ ret.err = ""
       /\ IsNullable(ret.type_hint)
       /\ ~HasRequiredMarker(ret.type_hint)

-----------------------------------------------------------------------------
(* C5 as claimed: a non-required property whose expression carries an      *)
(* explicit default keeps the default and has its type part made nullable. *)

C5_DefaultKeptTypeWrapped ==
    (/\ pc = "return"
     /\ ~call.required
     /\ AsRequired.err = ""
     /\ ContainsFieldDefault(AsRequired.type_hint))
    => /\ ret.err = ""
       /\ ret.type_hint =
              <<"Optional[">> \o SplitAtEq(AsRequired.type_hint)[1]
              \o <<"]", " =">> \o SplitAtEq(AsRequired.type_hint)[2]

(* C5 as amended: a non-required property whose expression carries an      *)
(* explicit default is returned exactly as for a required property: the    *)
(* default is kept and the type part is not made nullable.                 *)

C5_DefaultKeptNotWrapped ==
    (/\ pc = "return"
     /\ ~call.required
     /\ AsRequired.err = ""
     /\ ContainsFieldDefault(AsRequired.type_hint))
    => /\ ret = AsRequired
       /\ ~IsNullable(ret.type_hint)
       /\ ContainsFieldDefault(ret.type_hint)

\* a non-required integer with a default and a bound was synthesized
C5_Witness ==
    /\ pc = "return"
    /\ ~call.required /\ ~call.nested
    /\ call.property_["type"] = "integer"
    /\ "default" \in DOMAIN call.property_
    /\ "minimum" \in DOMAIN call.property_
    /\ ret.err = ""
    /\ ContainsFieldDefault(ret.type_hint)

-----------------------------------------------------------------------------
(* C6: the expression of an array node (required, so that nothing wraps    *)
(* it) is a tuple of arity N of the item type exactly when minItems and    *)
(* maxItems are both present and equal N, and a sequence of the item type  *)
(* otherwise, whatever the item (any item the generator accepts).          *)

C6_TupleIffFixedArity ==
    (/\ pc = "return"
     /\ call.required
     /\ call.property_["type"] = "array"
     /\ "items" \in DOMAIN call.property_
     /\ ItemHint.err = "")
    => /\ ret.err = ""
       /\ IF FixedArity(call.property_)
          THEN IsTypeOf(ret.type_hint,
                   <<"Tuple[">>
                   \o JoinCopies(ItemHint.type_hint, call.property_["minItems"])
                   \o <<"]">>)
          ELSE \/ IsTypeOf(ret.type_hint,
                      <<"List[">> \o ItemHint.type_hint \o <<"]">>)
               \/ StartsWith(ret.type_hint,
                      <<"conlist(">> \o ItemHint.type_hint)

-----------------------------------------------------------------------------
(* C7: the container recorded for the validator of an array field is tuple *)
(* exactly when the array has a fixed arity, and list otherwise.           *)

C7_ContainerKind ==
    (/\ pc = "return"
     /\ call.property_["type"] = "array"
     /\ ret.err = "")
    => ret.validator_iter =
           IF FixedArity(call.property_) THEN <<"tuple">> ELSE <<"list">>

-----------------------------------------------------------------------------
(* C1: a run over a document with a structural error (a channel with       *)
(* neither publish nor subscribe, an object at any depth that is not       *)
(* closed, a node of unrecognized kind) never writes an artifact and never *)
(* returns normally; whenever an artifact has been written, the class of   *)
(* every message has been generated and no error was raised; a run that    *)
(* raised has stopped.                                                     *)

\* the nodes of a tree, through properties and array items
RECURSIVE AllNodes(_)
AllNodes(node) ==
    {node} \cup
    (IF node["type"] = "object" /\ "properties" \in DOMAIN node
     THEN UNION {AllNodes(node["properties"][k][2]) :
                    k \in 1..Len(node["properties"])}
     ELSE IF node["type"] = "array" /\ "items" \in DOMAIN node
     THEN AllNodes(node["items"])
     ELSE {})

HasStructuralError(doc) ==
    \/ \E k \in 1..Len(doc.channels) :
          /\ "subscribe" \notin DOMAIN doc.channels[k][2]
          /\ "publish" \notin DOMAIN doc.channels[k][2]
    \/ \E k \in 1..Len(doc.messages) :
          \/ ~Closed_(doc.messages[k][2])
          \/ \E n \in AllNodes(doc.messages[k][2]) :
                \/ n["type"] \notin RecognizedKinds
                \/ n["type"] = "object" /\ ~Closed_(n)

C1_FailFastNoArtifacts ==
    /\ HasStructuralError(asyncapi_data) => (written = <<>> /\ pc # "done")
    /\ written # <<>> =>
          /\ error = ""
          /\ pc \in {"render", "done"}
          /\ idx > Len(asyncapi_data.messages)
    /\ error # "" <=> pc = "failed"

\* the run was aborted in the second message, after the first was generated
C1_Witness ==
    /\ pc = "failed"
    /\ error = "AssertionError"
    /\ idx = 2
    /\ Len(final_output_lines) > Len(Header)
    /\ written = <<>>

-----------------------------------------------------------------------------
(* Reading the callback stubs of payloads.py *)

\* the message names the channels use
UsedNames(doc) ==
    {MessageNames[n] : n \in {m \in 1..Len(MessageNames) :
        \E k \in 1..Len(doc.channels) :
            \/ /\ "subscribe" \in DOMAIN doc.channels[k][2]
               /\ doc.channels[k][2]["subscribe"] = MessageNames[m]
            \/ /\ "subscribe" \notin DOMAIN doc.channels[k][2]
               /\ "publish" \in DOMAIN doc.channels[k][2]
               /\ doc.channels[k][2]["publish"] = MessageNames[m]}}

\* the lines that open the stub of a class
StubsOf(lines, klass) ==
    {k \in 1..Len(lines) :
        lines[k] = <<"class _">> \o klass \o <<"Callable(Protocol):">>}

\* the signature line of the stub opened at line k
SignatureOf(lines, k) == lines[k + 4]

ZeroArgSignature == <<"    ", "def __call__(self", ") -> Any:">>

OneArgSignature(klass) ==
    <<"    ", "def __call__(self", ", payload: ">> \o klass \o <<") -> Any:">>

\* the payload schema of a message declares no field
ZeroFields(payload) ==
    "properties" \notin DOMAIN payload \/ payload["properties"] = <<>>

-----------------------------------------------------------------------------
(* C11: in the payloads.py a run wrote, every message name used by at      *)
(* least one channel has exactly one callback stub and a name no channel   *)
(* uses has none; the stub of a declared message takes no argument exactly *)
(* when the message declares zero fields, and otherwise takes one argument *)
(* typed by the class, whatever the message is called.                     *)

C11_CallbackStubs ==
    pc = "done" =>
        LET lines == written[1][2]
        IN  /\ \A klass \in MessageRefs :
                  Cardinality(StubsOf(lines, klass)) =
                      IF klass \in UsedNames(asyncapi_data) THEN 1 ELSE 0
            /\ \A m \in 1..Len(asyncapi_data.messages) :
                  LET klass == asyncapi_data.messages[m][1]
                      payload == asyncapi_data.messages[m][2]
                  IN  \A k \in StubsOf(lines, klass) :
                          SignatureOf(lines, k) =
                              IF ZeroFields(payload) THEN ZeroArgSignature
                              ELSE OneArgSignature(klass)

-----------------------------------------------------------------------------
(* C12: the payloads.py a run wrote is a function of the document alone:   *)
(* the header, the classes of the messages in document order, and the      *)
(* callback stubs in the order in which the channels of the document first *)
(* name their classes, so that two runs on one document write the same     *)
(* lines in the same order.                                                *)

\* the class a channel names (lines 364-372)
ChannelClass(channel) ==
    IF "subscribe" \in DOMAIN channel
    THEN channel["subscribe"] ELSE channel["publish"]

RECURSIVE ClassLinesFrom(_, _)
ClassLinesFrom(messages, k) ==
    IF k > Len(messages) THEN <<>>
    ELSE build_class_code(messages[k][1], messages[k][2]).lines
         \o ClassLinesFrom(messages, k + 1)

RECURSIVE StubLinesFrom(_, _)
StubLinesFrom(names, k) ==
    IF k > Len(names) THEN <<>>
    ELSE CallableLines(names[k]) \o StubLinesFrom(names, k + 1)

\* the lines of payloads.py as the document alone fixes them
DocumentOrderLines(doc) ==
    LET names == [k \in 1..Len(doc.channels) |-> ChannelClass(doc.channels[k][2])]
    IN  ReplaceTabs(Header
                    \o ClassLinesFrom(doc.messages, 1)
                    \o StubLinesFrom(Dedup(names, 1), 1))

C12_Deterministic ==
    pc = "done" => written[1] = <<"payloads.py", DocumentOrderLines(asyncapi_data)>>

-----------------------------------------------------------------------------
(* Reading a rendered numeric constraint *)

\* the texts a descriptor carries: its expression and its auxiliary lines
TextsOf(h) ==
    {h.type_hint} \cup {h.prepend_lines[k] : k \in 1..Len(h.prepend_lines)}

\* the keyword argument key with the value v occurs in the text t
HasArgument(t, key, v) ==
    \E i \in 1..(Len(t) - Len(v)) :
        t[i] = key /\ SubSeq(t, i + 1, i + Len(v)) = v

Renders(h, key, v) == \E t \in TextsOf(h) : HasArgument(t, key, v)

IsNumberNode(node) == node["type"] \in {"integer", "number"}

Constrained(node) == \E p \in NumberExtras : p \in DOMAIN node

-----------------------------------------------------------------------------
(* C13: for an integer/number node that declares at least one of default,  *)
(* minimum, maximum, exclusiveMinimum, exclusiveMaximum, the synthesized   *)
(* bounded type carries every constraint the node declares: minimum as     *)
(* ge, maximum as le, exclusiveMinimum as gt, exclusiveMaximum as lt, and  *)
(* the default when one is given; none is dropped.                         *)

C13_EveryConstraintRendered ==
    (/\ pc = "return"
     /\ IsNumberNode(call.property_)
     /\ Constrained(call.property_))
    => LET node == call.property_
       IN  /\ ret.err = ""
           /\ "minimum" \in DOMAIN node
                 => Renders(ret, ", ge=", <<ToString(node["minimum"])>>)
           /\ "maximum" \in DOMAIN node
                 => Renders(ret, ", le=", <<ToString(node["maximum"])>>)
           /\ "exclusiveMinimum" \in DOMAIN node
                 => Renders(ret, ", gt=", <<ToString(node["exclusiveMinimum"])>>)
           /\ "exclusiveMaximum" \in DOMAIN node
                 => Renders(ret, ", lt=", <<ToString(node["exclusiveMaximum"])>>)
           /\ ("default" \in DOMAIN node /\ node["default"] # None)
                 => Renders(ret, "default=", node["default"])

-----------------------------------------------------------------------------
(* C14: type_hint_for_property on an integer/number node returns an        *)
(* auxiliary wrapper class exactly when the node is nested and declares at *)
(* least one constraint.  The wrapper is named parent + title-cased name   *)
(* without underscores + "Item", is the only class of the auxiliary lines, *)
(* carries every constraint the node declares, converts back to the plain  *)
(* scalar, and the descriptor has validator true and core and analysis     *)
(* type int for integer, float for number.  In every other numeric case    *)
(* there are no auxiliary lines and validator is false.                    *)

ScalarOf(node) == IF node["type"] = "number" THEN "float" ELSE "int"

WrapperName(parent_name, name) ==
    parent_name \o RemoveUnderscores(Title(name)) \o <<"I", "t", "e", "m">>

\* the lines give the class back as the scalar: def __int__ / def __float__
ConvertsBack(lines, scalar) ==
    \E k \in 1..(Len(lines) - 1) :
        /\ lines[k] = <<"\t", "def __", scalar, "__(self) -> ", scalar, ":">>
        /\ lines[k + 1] = <<"\t", "\t", "return self.__root__">>

\* the auxiliary lines carry every constraint the node declares
CarriesConstraints(h, node) ==
    /\ "minimum" \in DOMAIN node
          => Renders(h, ", ge=", <<ToString(node["minimum"])>>)
    /\ "maximum" \in DOMAIN node
          => Renders(h, ", le=", <<ToString(node["maximum"])>>)
    /\ "exclusiveMinimum" \in DOMAIN node
          => Renders(h, ", gt=", <<ToString(node["exclusiveMinimum"])>>)
    /\ "exclusiveMaximum" \in DOMAIN node
          => Renders(h, ", lt=", <<ToString(node["exclusiveMaximum"])>>)
    /\ ("default" \in DOMAIN node /\ node["default"] # None)
          => Renders(h, "default=", node["default"])

C14_NestedNumericWrapper ==
    (pc = "return" /\ IsNumberNode(call.property_))
    => LET node == call.property_
           wrapper == WrapperName(call.parent_name, call.name)
       IN  /\ ret.err = ""
           /\ IF call.nested /\ Constrained(node)
              THEN /\ DefNames(ret.prepend_lines) = <<wrapper>>
                   /\ CarriesConstraints([ret EXCEPT !.type_hint = <<>>], node)
                   /\ ConvertsBack(ret.prepend_lines, ScalarOf(node))
                   /\ wrapper \in Identifiers(ret.type_hint)
                   /\ ret.validator = TRUE
                   /\ ret.core_type_hint = <<ScalarOf(node)>>
                   /\ ret.type_checking = TRUE
                   /\ ret.type_checking_type_hint = <<ScalarOf(node)>>
              ELSE /\ ret.prepend_lines = <<>>
                   /\ ret.validator = FALSE

-----------------------------------------------------------------------------
(* C15: the descriptor type_hint_for_property returns for an array node    *)
(* has validator true exactly when the descriptor of the item has          *)
(* validator true or the array declares minItems or maxItems; its          *)
(* auxiliary lines are exactly the item's, its core type and its           *)
(* type_checking flag are the item's; when neither bound is declared the   *)
(* expression (of a required property, which nothing wraps) is the plain   *)
(* sequence of the item's expression, with no Field or conlist layer.      *)

HasArrayBounds(node) ==
    "minItems" \in DOMAIN node \/ "maxItems" \in DOMAIN node

C15_ArrayPropagation ==
    (/\ pc = "return"
     /\ call.property_["type"] = "array"
     /\ ret.err = "")
    => /\ ret.validator = (ItemHint.validator \/ HasArrayBounds(call.property_))
       /\ ret.prepend_lines = ItemHint.prepend_lines
       /\ ret.core_type_hint = ItemHint.core_type_hint
       /\ ret.type_checking = ItemHint.type_checking
       /\ (~HasArrayBounds(call.property_) /\ call.required)
             => ret.type_hint = <<"List[">> \o ItemHint.type_hint \o <<"]">>

\* an array with a bound over an item that needs no coercion was synthesized
C15_Witness ==
    /\ pc = "return"
    /\ call.property_["type"] = "array"
    /\ HasArrayBounds(call.property_)
    /\ ret.err = ""
    /\ ItemHint.validator = FALSE
    /\ ret.validator = TRUE

-----------------------------------------------------------------------------
(* The recursion of build_class_code and type_hint_for_property, call by   *)
(* call.  jsonref resolves a $ref to the node it names, so the resolved    *)
(* document holds its nodes by reference: it is a table node -> [type,     *)
(* kids], kids being the nodes of the properties of an object, or the      *)
(* items node of an array.  Node 1 is the payload of the message.  A $ref  *)
(* to an ancestor makes the document cyclic.                               *)

MaxNodes == 3

\* the frames the interpreter allows (sys.getrecursionlimit(), scaled down)
RecursionLimit == 8

WalkNodes == 1..MaxNodes

\* the properties of an object: none, one or two nodes
KidSeqs ==
    {<<>>} \cup {<<a>> : a \in WalkNodes}
    \cup {<<ab[1], ab[2]>> : ab \in {p \in WalkNodes \X WalkNodes : p[1] < p[2]}}

WalkObjects == {[type |-> "object", kids |-> ks] : ks \in KidSeqs}

WalkArrays == {[type |-> "array", kids |-> <<a>>] : a \in WalkNodes}

WalkDocs ==
    {d \in [WalkNodes -> WalkObjects \cup WalkArrays] : d[1]["type"] = "object"}

\* the calls a call makes, in order: lines 295-304 (one type_hint_for_property
\* per property), line 257 (build_class_code on an object property), line 262
\* (type_hint_for_array_property on an array property), line 160 (the items)
Callees(doc, fn, node) ==
    IF fn = "build_class_code"
    THEN [k \in 1..Len(doc[node].kids) |->
             <<"type_hint_for_property", doc[node].kids[k]>>]
    ELSE IF fn = "type_hint_for_array_property"
    THEN << <<"type_hint_for_property", doc[node].kids[1]>> >>
    ELSE IF doc[node]["type"] = "object"
    THEN << <<"build_class_code", node>> >>
    ELSE << <<"type_hint_for_array_property", node>> >>

\* a frame: the function, the node it is called on, the calls it has made
Frame(fn, node, made) == [fn |-> fn, node |-> node, made |-> made]

Top == stack[Len(stack)]

InitWalk ==
    /\ pc = "walk"
    /\ call = <<>>
    /\ ret = Pending
    /\ asyncapi_data \in WalkDocs
    /\ stack = <<Frame("build_class_code", 1, 0)>>
    /\ calls = << <<"build_class_code", 1>> >>
    /\ topic_class = <<>>
    /\ final_output_lines = <<>>
    /\ idx = 0
    /\ todo = {}
    /\ written = {}
    /\ error = ""

\* the innermost call makes its next call
CallNext ==
    /\ pc = "walk"
    /\ Top.made < Len(Callees(asyncapi_data, Top.fn, Top.node))
    /\ Len(stack) < RecursionLimit
    /\ LET callee == Callees(asyncapi_data, Top.fn, Top.node)[Top.made + 1]
       IN  /\ stack' = Append([stack EXCEPT ![Len(stack)].made = @ + 1],
                              Frame(callee[1], callee[2], 0))
           /\ calls' = Append(calls, callee)
    /\ UNCHANGED <<pc, call, ret, asyncapi_data, topic_class,
                   final_output_lines, idx, todo, written, error>>

\* the next call would pass the limit of the interpreter: RecursionError
\* is raised and nothing in build.py catches it
RaiseRecursionError ==
    /\ pc = "walk"
    /\ Top.made < Len(Callees(asyncapi_data, Top.fn, Top.node))
    /\ Len(stack) >= RecursionLimit
    /\ error' = "RecursionError"
    /\ pc' = "failed"
    /\ UNCHANGED <<call, ret, stack, calls, asyncapi_data, topic_class,
                   final_output_lines, idx, todo, written>>

\* the innermost call has made all its calls and returns
ReturnCall ==
    /\ pc = "walk"
    /\ Top.made = Len(Callees(asyncapi_data, Top.fn, Top.node))
    /\ stack' = SubSeq(stack, 1, Len(stack) - 1)
    /\ pc' = IF Len(stack) = 1 THEN "done" ELSE "walk"
    /\ UNCHANGED <<call, ret, calls, asyncapi_data, topic_class,
                   final_output_lines, idx, todo, written, error>>

NextWalk ==
    \/ CallNext
    \/ RaiseRecursionError
    \/ ReturnCall

SpecWalk == InitWalk /\ [][NextWalk]_vars

-----------------------------------------------------------------------------
(* The shape of a document held by reference *)

KidsOf(doc, S) == UNION {{doc[n].kids[k] : k \in 1..Len(doc[n].kids)} : n \in S}

\* the nodes reached from the nodes of S in at most k steps
RECURSIVE ReachedFrom(_, _, _)
ReachedFrom(doc, S, k) ==
    IF k = 0 THEN S ELSE ReachedFrom(doc, S \cup KidsOf(doc, S), k - 1)

Reachable(doc) == ReachedFrom(doc, {1}, MaxNodes)

Descendants(doc, n) == ReachedFrom(doc, KidsOf(doc, {n}), MaxNodes)

\* a node of the document contains itself through properties or items
Cyclic(doc) == \E n \in Reachable(doc) : n \in Descendants(doc, n)

\* after resolution every node has one place in the document
IsTree(doc) ==
    /\ ~Cyclic(doc)
    /\ 1 \notin KidsOf(doc, Reachable(doc))
    /\ \A n \in Reachable(doc) :
           Cardinality({p \in Reachable(doc) : n \in KidsOf(doc, {p})}) <= 1

\* the number of nodes on the longest path from n, in a document with no cycle
RECURSIVE DepthFrom(_, _)
DepthFrom(doc, n) ==
    LET below == {DepthFrom(doc, m) : m \in KidsOf(doc, {n})}
    IN  1 + (IF below = {} THEN 0
             ELSE CHOOSE d \in below : \A e \in below : e <= d)

NoCallTwice(s) == \A i, j \in 1..Len(s) : i # j => s[i] # s[j]

InProgress == [k \in 1..Len(stack) |-> <<stack[k].fn, stack[k].node>>]

-----------------------------------------------------------------------------
(* C16: on a document that is a finite tree the recursion makes each call  *)
(* once (every node is visited once, so the run ends) with at most two     *)
(* frames per level of the document, and raises nothing; on a document     *)
(* with a cycle the run is rejected with an error at the cycle: no call is *)
(* in progress twice, and the run never returns normally.                  *)

-----------------------------------------------------------------------------
(* C17: type_hint_for_property returns a descriptor and raises nothing for *)
(* every node of a recognized kind (string, integer, number, boolean,      *)
(* closed object, array of such nodes), whether the property is required   *)
(* or not; so also for a non-required array with minItems/maxItems over    *)
(* constrained numeric items.                                              *)

\* every node of the tree is of a recognized kind and has the keys the code
\* reads: objects are closed and list their required properties, arrays have
\* items
Supported(node) ==
    \A n \in AllNodes(node) :
        /\ n["type"] \in RecognizedKinds
        /\ n["type"] = "object" =>
              /\ Closed_(n)
              /\ "properties" \in DOMAIN n => "required" \in DOMAIN n
        /\ n["type"] = "array" => "items" \in DOMAIN n

C17_SynthesizeTotal ==
    (pc = "return" /\ Supported(call.property_)) => ret.err = ""

=============================================================================
